---- MODULE Spec2Model ----
(***************************************************************************)
(* State-machine model of glider_parser.py: the GliderParsedData           *)
(* constructor (open, _read_header, _read_data, close) and                 *)
(* CtdDataParticle.build_parsed_values.                                     *)
(*                                                                         *)
(* A line of the file is the sequence of its whitespace-delimited tokens   *)
(* (the value of line.split()); a token is a string.  The file is read      *)
(* once, front to back, so each readline() draws the next line from a small *)
(* set of lines when it is executed.  A blank line and end of file both     *)
(* split to the empty sequence.                                             *)
(***************************************************************************)
EXTENDS Integers, Sequences, FiniteSets, TLC

VARIABLES
    pc,               \* position of the constructor (see PipelineState)
    fid,              \* self._fid: "none", "open" or "closed"
    fpos,             \* number of lines read from the stream so far
    hdr_dict,         \* self.hdr_dict
    num_hdr_lines,    \* local of _read_header
    hdr_line,         \* local of _read_header
    override_seen,    \* history: the branch at line 73-74 was taken
    column_labels,    \* locals of _read_data
    column_type,
    column_num_bytes,
    data,
    data_array,
    num_columns,
    ii,
    data_dict,        \* self.data_dict
    data_keys,        \* self.data_keys (<<>> while the attribute is unset)
    warned,           \* sequence of warnings issued through warnings.warn
    error,            \* the exception that left the constructor
    gpd,              \* the caller's reference to the constructed object
    result,           \* local list of build_parsed_values (last call)
    returned,         \* what the last build_parsed_values call returned
    extract_status,   \* outcome of the last build_parsed_values call
    extract_error,    \* the exception the last build_parsed_values call raised
    failed_before     \* history: an earlier build_parsed_values call raised

vars == << pc, fid, fpos, hdr_dict, num_hdr_lines, hdr_line, override_seen,
           column_labels, column_type, column_num_bytes, data, data_array,
           num_columns, ii, data_dict, data_keys, warned, error, gpd,
           result, returned, extract_status, extract_error, failed_before >>

hdrVars   == << hdr_dict, num_hdr_lines, hdr_line, override_seen >>
metaVars  == << column_labels, column_type, column_num_bytes >>
tableVars == << data_dict, data_keys >>
callVars  == << result, returned, extract_status, extract_error, failed_before >>

(***************************************************************************)
(* Bounds of the model.                                                    *)
(***************************************************************************)
MaxDataRows == 2

(***************************************************************************)
(* Text helpers: Python's str slicing, int() and list membership.          *)
(***************************************************************************)
Digits == {"0", "1", "2", "3", "4", "5", "6", "7", "8", "9"}

CharAt(s, i) == SubSeq(s, i, i)

\* s[:-1]
StripLast(s) == SubSeq(s, 1, Len(s) - 1)

\* the digits of s after an optional sign
Unsigned(s) ==
    IF Len(s) > 0 /\ CharAt(s, 1) \in {"+", "-"} THEN SubSeq(s, 2, Len(s)) ELSE s

\* int(s) does not raise ValueError
IsIntText(s) ==
    /\ Len(Unsigned(s)) > 0
    /\ \A i \in 1..Len(Unsigned(s)) : CharAt(Unsigned(s), i) \in Digits

DigitVal(c) ==
    CASE c = "0" -> 0 [] c = "1" -> 1 [] c = "2" -> 2 [] c = "3" -> 3
      [] c = "4" -> 4 [] c = "5" -> 5 [] c = "6" -> 6 [] c = "7" -> 7
      [] c = "8" -> 8 [] c = "9" -> 9

RECURSIVE DecimalValue(_)
DecimalValue(s) ==
    IF Len(s) = 0 THEN 0
    ELSE 10 * DecimalValue(StripLast(s)) + DigitVal(CharAt(s, Len(s)))

\* int(s), for s with IsIntText(s)
ToInt(s) ==
    IF CharAt(s, 1) = "-" THEN 0 - DecimalValue(Unsigned(s))
    ELSE DecimalValue(Unsigned(s))

\* x in seq
Contains(seq, x) == \E i \in 1..Len(seq) : seq[i] = x

EmptyDict == [k \in {} |-> ""]

\* d[k] = v
DictSet(d, k, v) == [x \in (DOMAIN d) \cup {k} |-> IF x = k THEN v ELSE d[x]]

NoError == [type |-> "", arg |-> ""]
Exc(t, a) == [type |-> t, arg |-> a]

NoneValue == [kind |-> "None", items |-> << >>]
ListValue(items) == [kind |-> "list", items |-> items]

NoArray == [shape |-> << >>, rows |-> << >>]

(***************************************************************************)
(* Inputs: the lines a file may hold.                                      *)
(***************************************************************************)
HeaderLines ==
    { << "num_ascii_tags:", "2" >>,
      << "sensors_per_cycle:", "2" >>,
      << "sensors_per_cycle:", "7" >>,
      << "num_ascii_tags", "3" >>,
      << "mission:", "num_ascii_tags" >>,
      << "filename:" >>,
      << >> }

CtdLabels ==
    << "sci_water_cond", "sci_ctd41cp_timestamp", "sci_water_temp",
       "sci_water_pressure", "sci_ctd41cp_is_installed",
       "sci_m_present_time", "sci_m_present_secs_into_mission" >>

LabelRows == { << "temp", "cond" >>, << "temp", "cond", "press" >>, CtdLabels }

UnitRows ==
    { << "degC", "S/m" >>, << "degC", "S/m", "bar" >>,
      << "S/m", "timestamp", "degC", "bar", "bool", "timestamp", "sec" >> }

ByteRows ==
    { << "4", "8" >>, << "4", "8", "4" >>, << "4", "four", "4" >>,
      << "4", "8", "4", "4", "1", "8", "4" >> }

DataLines ==
    { << >>,
      << "10.5", "3.2" >>,
      << "10.5", "3.2", "100" >>,
      << "10.6", "3.3", "101" >>,
      << "3.2", "1.0", "10.5", "100", "1", "2.0", "60" >> }

RECURSIVE SeqsUpTo(_, _)
SeqsUpTo(S, n) ==
    IF n = 0 THEN { << >> }
    ELSE LET shorter == SeqsUpTo(S, n - 1)
         IN  shorter \cup { Append(s, x) : s \in shorter, x \in S }

DataFiles == SeqsUpTo(DataLines, MaxDataRows)

(***************************************************************************)
(* The constructor.                                                        *)
(***************************************************************************)
Init ==
    /\ pc = "Unopened"
    /\ fid = "none"
    /\ fpos = 0
    /\ hdr_dict = EmptyDict
    /\ num_hdr_lines = 0
    /\ hdr_line = 0
    /\ override_seen = FALSE
    /\ column_labels = << >>
    /\ column_type = << >>
    /\ column_num_bytes = << >>
    /\ data = << >>
    /\ data_array = NoArray
    /\ num_columns = 0
    /\ ii = 0
    /\ data_dict = EmptyDict
    /\ data_keys = << >>
    /\ warned = << >>
    /\ error = NoError
    /\ gpd = "none"
    /\ result = << >>
    /\ returned = NoneValue
    /\ extract_status = "none"
    /\ extract_error = NoError
    /\ failed_before = FALSE

\* variant: the constructor swallows the exception and hands the object out
RaiseSwallowed(e) ==
    /\ pc' = "Closed"
    /\ error' = e
    /\ gpd' = "obj"
    /\ fid' = fid

\* an exception leaves __init__: nothing after the raising statement runs,
\* the caller's assignment never happens
Raise(e) ==
    /\ pc' = "Failed"
    /\ error' = e
    /\ gpd' = gpd
    /\ fid' = fid

DefaultHdrLines == 14

\* lines 54-56 and 68-69
Open ==
    /\ pc = "Unopened"
    /\ pc' = "ReadHeader"
    /\ fid' = "open"
    /\ hdr_dict' = EmptyDict
    /\ data_dict' = EmptyDict
    /\ num_hdr_lines' = DefaultHdrLines
    /\ hdr_line' = 1
    /\ UNCHANGED << fpos, override_seen, metaVars, data, data_array,
                    num_columns, ii, data_keys, warned, error, gpd, callVars >>

\* variant: the loop stops one line early
HdrLoopCondStrict(h, n) == h < n

\* line 70
HdrLoopCond(h, n) == h <= n

\* line 73
IsOverrideLine(split_line) == Contains(split_line, "num_ascii_tags")

\* one iteration of the while loop, lines 70-76
ReadHeaderLine ==
    /\ pc = "ReadHeader"
    /\ HdrLoopCond(hdr_line, num_hdr_lines)
    /\ \E split_line \in HeaderLines :
         /\ fpos' = fpos + 1
         /\ IF IsOverrideLine(split_line) /\ Len(split_line) < 2
              THEN /\ Raise(Exc("IndexError", ""))
                   /\ UNCHANGED hdrVars
            ELSE IF IsOverrideLine(split_line) /\ ~IsIntText(split_line[2])
              THEN /\ Raise(Exc("ValueError", split_line[2]))
                   /\ UNCHANGED hdrVars
            ELSE IF Len(split_line) < 2
              THEN /\ Raise(Exc("IndexError", ""))
                   /\ UNCHANGED hdrVars
            ELSE /\ num_hdr_lines' = IF IsOverrideLine(split_line)
                                       THEN ToInt(split_line[2])
                                       ELSE num_hdr_lines
                 /\ override_seen' = (override_seen \/ IsOverrideLine(split_line))
                 /\ hdr_dict' = DictSet(hdr_dict, StripLast(split_line[1]), split_line[2])
                 /\ hdr_line' = hdr_line + 1
                 /\ UNCHANGED << pc, error, gpd, fid >>
    /\ UNCHANGED << metaVars, data, data_array, num_columns, ii, tableVars,
                    warned, callVars >>

\* the while loop ends; __init__ goes on to _read_data (line 58)
HeaderDone ==
    /\ pc = "ReadHeader"
    /\ ~HdrLoopCond(hdr_line, num_hdr_lines)
    /\ pc' = "ReadMetadata"
    /\ UNCHANGED << fid, fpos, hdrVars, metaVars, data, data_array, num_columns,
                    ii, tableVars, warned, error, gpd, callVars >>

\* lines 83-85: the three metadata rows
ReadMetadata ==
    /\ pc = "ReadMetadata"
    /\ \E labels \in LabelRows, units \in UnitRows, widths \in ByteRows :
         /\ column_labels' = labels
         /\ column_type' = units
         /\ column_num_bytes' = widths
    /\ fpos' = fpos + 3
    /\ pc' = "ReadRows"
    /\ UNCHANGED << fid, hdrVars, data, data_array, num_columns, ii, tableVars,
                    warned, error, gpd, callVars >>

\* lines 89-91: every remaining line, split
ReadRows ==
    /\ pc = "ReadRows"
    /\ \E rows \in DataFiles :
         /\ data' = rows
         /\ fpos' = fpos + Len(rows)
    /\ pc' = "MakeArray"
    /\ UNCHANGED << fid, hdrVars, metaVars, data_array, num_columns, ii,
                    tableVars, warned, error, gpd, callVars >>

IsRectangular(rows) == \A i, j \in 1..Len(rows) : Len(rows[i]) = Len(rows[j])

\* np.array(rows) for a rectangular list of lists: shape (0,) when there
\* are no rows, else (D, W)
ArrayOf(rows) ==
    [shape |-> IF Len(rows) = 0 THEN << 0 >> ELSE << Len(rows), Len(rows[1]) >>,
     rows  |-> rows]

\* np.array(rows) for ragged rows where numpy accepts them: a one-dimensional
\* array of list objects
ObjectArrayOf(rows) == [shape |-> << Len(rows) >>, rows |-> rows]

\* line 92.  For ragged rows numpy either builds a one-dimensional object
\* array (older releases) or raises ValueError (1.24 and later).
MakeArray ==
    /\ pc = "MakeArray"
    /\ IF IsRectangular(data)
         THEN /\ data_array' = ArrayOf(data)
              /\ pc' = "CheckColumns"
              /\ UNCHANGED << error, gpd, fid >>
         ELSE \/ /\ data_array' = ObjectArrayOf(data)
                 /\ pc' = "CheckColumns"
                 /\ UNCHANGED << error, gpd, fid >>
              \/ /\ Raise(Exc("ValueError", "inhomogeneous shape"))
                 /\ UNCHANGED data_array
    /\ UNCHANGED << fpos, hdrVars, metaVars, data, num_columns, ii, tableVars,
                    warned, callVars >>

\* the warning text of lines 97-100 carries these two numbers
Warning(described, actual) == [described |-> described, actual |-> actual]

\* lines 95-101
CheckColumns ==
    /\ pc = "CheckColumns"
    /\ IF "sensors_per_cycle" \notin DOMAIN hdr_dict
         THEN /\ Raise(Exc("KeyError", "sensors_per_cycle"))
              /\ UNCHANGED << num_columns, ii, warned >>
       ELSE IF ~IsIntText(hdr_dict["sensors_per_cycle"])
         THEN /\ Raise(Exc("ValueError", hdr_dict["sensors_per_cycle"]))
              /\ UNCHANGED << num_columns, ii, warned >>
       ELSE IF Len(data_array.shape) < 2
         THEN /\ num_columns' = ToInt(hdr_dict["sensors_per_cycle"])
              /\ Raise(Exc("IndexError", "tuple index out of range"))
              /\ UNCHANGED << ii, warned >>
       ELSE /\ num_columns' = ToInt(hdr_dict["sensors_per_cycle"])
            /\ warned' = IF num_columns' # data_array.shape[2]
                           THEN Append(warned, Warning(num_columns', data_array.shape[2]))
                           ELSE warned
            /\ ii' = 0
            /\ pc' = "BuildColumns"
            /\ UNCHANGED << error, gpd, fid >>
    /\ UNCHANGED << fpos, hdrVars, metaVars, data, data_array, tableVars, callVars >>

\* data_array[:, i] with a 0-based i inside the array's second dimension
ColumnOf(arr, i) == [r \in 1..Len(arr.rows) |-> arr.rows[r][i + 1]]

\* the dictionary of lines 105-110 for 0-based column i
ColumnEntry(i) ==
    [Name            |-> column_labels[i + 1],
     Units           |-> column_type[i + 1],
     Number_of_Bytes |-> ToInt(column_num_bytes[i + 1]),
     Data            |-> ColumnOf(data_array, i)]

\* line 104: the range the loop walks
LoopBound == num_columns

\* one iteration of the for loop, lines 104-110
BuildColumn ==
    /\ pc = "BuildColumns"
    /\ ii < LoopBound
    /\ IF \/ ii >= Len(column_labels)
          \/ ii >= Len(column_type)
          \/ ii >= Len(column_num_bytes)
         THEN /\ Raise(Exc("IndexError", "list index out of range"))
              /\ UNCHANGED << ii, data_dict >>
       ELSE IF ~IsIntText(column_num_bytes[ii + 1])
         THEN /\ Raise(Exc("ValueError", column_num_bytes[ii + 1]))
              /\ UNCHANGED << ii, data_dict >>
       ELSE IF ii >= data_array.shape[2]
         THEN /\ Raise(Exc("IndexError", "index out of bounds"))
              /\ UNCHANGED << ii, data_dict >>
       ELSE /\ data_dict' = DictSet(data_dict, column_labels[ii + 1], ColumnEntry(ii))
            /\ ii' = ii + 1
            /\ UNCHANGED << pc, error, gpd, fid >>
    /\ UNCHANGED << fpos, hdrVars, metaVars, data, data_array, num_columns,
                    data_keys, warned, callVars >>

\* the loop is exhausted; line 111
SetKeys ==
    /\ pc = "BuildColumns"
    /\ ii >= LoopBound
    /\ data_keys' = column_labels
    /\ pc' = "Close"
    /\ UNCHANGED << fid, fpos, hdrVars, metaVars, data, data_array, num_columns,
                    ii, data_dict, warned, error, gpd, callVars >>

\* line 59, then the constructor returns the object to its caller
Close ==
    /\ pc = "Close"
    /\ fid' = "closed"
    /\ pc' = "Closed"
    /\ gpd' = "obj"
    /\ UNCHANGED << fpos, hdrVars, metaVars, data, data_array, num_columns, ii,
                    tableVars, warned, error, callVars >>

(***************************************************************************)
(* Particle extraction.                                                    *)
(***************************************************************************)
\* CtdDataParticleKey.list(): BaseEnum.list() walks dir(cls), that is the
\* attribute names in alphabetical order (COND, CTD_TIMESTAMP, IS_INSTALLED,
\* PRESENT_TIME, PRESS, SECS_INTO_MISSION, TEMP)
CtdDataParticleKeyList ==
    << "sci_water_cond", "sci_ctd41cp_timestamp", "sci_ctd41cp_is_installed",
       "sci_m_present_time", "sci_water_pressure",
       "sci_m_present_secs_into_mission", "sci_water_temp" >>

\* the dictionary appended at lines 146-148
ParsedValue(key, d) == [value_id |-> key, value |-> d[key].Data]

MissingIndexes(keys, d) == { i \in 1..Len(keys) : keys[i] \notin DOMAIN d }

\* the index at which the loop of lines 145-148 raises KeyError
RaisingIndex(keys, d) ==
    CHOOSE i \in MissingIndexes(keys, d) : \A j \in MissingIndexes(keys, d) : i <= j

\* variant: the error names the last missing name of the schema
MissingKeyLast(keys, d) ==
    keys[CHOOSE i \in MissingIndexes(keys, d) : \A j \in MissingIndexes(keys, d) : i >= j]

\* the key the KeyError of line 148 carries: the one being looked up
MissingKey(keys, d) == keys[RaisingIndex(keys, d)]

\* the value the call hands back: the function has no return statement
ReturnValue(items) == NoneValue

\* one call of build_parsed_values, lines 140-148
BuildParsedValues(arg) ==
    /\ pc \in {"Closed", "Failed"}
    /\ arg = "gpd" => gpd = "obj"
    /\ failed_before' = (failed_before \/ extract_status \in {"KeyError", "GliderObjectException"})
    /\ IF arg # "gpd"
         THEN /\ extract_status' = "GliderObjectException"
              /\ extract_error' = Exc("GliderObjectException", "not a GliderParsedData object")
              /\ result' = << >>
              /\ returned' = NoneValue
       ELSE IF MissingIndexes(CtdDataParticleKeyList, data_dict) # {}
         THEN LET k == RaisingIndex(CtdDataParticleKeyList, data_dict)
              IN  /\ extract_status' = "KeyError"
                  /\ extract_error' = Exc("KeyError", MissingKey(CtdDataParticleKeyList, data_dict))
                  /\ result' = [i \in 1..(k - 1) |->
                                   ParsedValue(CtdDataParticleKeyList[i], data_dict)]
                  /\ returned' = NoneValue
       ELSE /\ extract_status' = "ok"
            /\ extract_error' = NoError
            /\ result' = [i \in 1..Len(CtdDataParticleKeyList) |->
                             ParsedValue(CtdDataParticleKeyList[i], data_dict)]
            /\ returned' = ReturnValue(result')
    /\ UNCHANGED << pc, fid, fpos, hdrVars, metaVars, data, data_array,
                    num_columns, ii, tableVars, warned, error, gpd >>

Extract == \E arg \in {"gpd", "other"} : BuildParsedValues(arg)

Next ==
    \/ Open
    \/ ReadHeaderLine
    \/ HeaderDone
    \/ ReadMetadata
    \/ ReadRows
    \/ MakeArray
    \/ CheckColumns
    \/ BuildColumn
    \/ SetKeys
    \/ Close
    \/ Extract

Spec == Init /\ [][Next]_vars

(***************************************************************************)
(* The pipeline states of the specification, read off the constructor's    *)
(* position.                                                               *)
(***************************************************************************)
PipelineState ==
    CASE pc \in {"Unopened", "ReadHeader"} -> "Unopened"
      [] pc = "ReadMetadata" -> "HeaderRead"
      [] pc = "ReadRows" -> "MetadataRowsRead"
      [] pc \in {"MakeArray", "CheckColumns", "BuildColumns", "Close"} -> "DataRowsRead"
      [] pc = "Closed" -> "Closed"
      [] pc = "Failed" -> "Failed"

Rank(st) ==
    CASE st = "Unopened" -> 0
      [] st = "HeaderRead" -> 1
      [] st = "MetadataRowsRead" -> 2
      [] st = "DataRowsRead" -> 3
      [] st = "Closed" -> 4
      [] st = "Failed" -> 5

Finished == pc \in {"Closed", "Failed"}

\* line 92 was executed
ArrayWasMade == data_array.shape # << >>

SeqToSet(seq) == { seq[i] : i \in 1..Len(seq) }

\* the number of metadata columns, when the three rows agree on it
EqualMetadataRows ==
    /\ Len(column_labels) = Len(column_type)
    /\ Len(column_labels) = Len(column_num_bytes)

\* an input that the file format allows: distinct names, integer byte
\* widths, every data row as wide as the metadata rows, an integer
\* sensors_per_cycle in the header
WellFormedTableInput ==
    /\ ArrayWasMade
    /\ EqualMetadataRows
    /\ \A i, j \in 1..Len(column_labels) :
          column_labels[i] = column_labels[j] => i = j
    /\ \A i \in 1..Len(column_num_bytes) : IsIntText(column_num_bytes[i])
    /\ \A r \in 1..Len(data) : Len(data[r]) = Len(column_labels)
    /\ "sensors_per_cycle" \in DOMAIN hdr_dict
    /\ IsIntText(hdr_dict["sensors_per_cycle"])

(***************************************************************************)
(* Claims.                                                                 *)
(***************************************************************************)

\* C1: when a line with tag num_ascii_tags and integer value V is among the
\* header lines read, every line read having the form "<tag>: <value>", the
\* header loop stops having consumed exactly V lines.
C1_HeaderCountIsTagValue ==
    ( /\ pc = "ReadMetadata"
      /\ ~override_seen
      /\ "num_ascii_tags" \in DOMAIN hdr_dict
      /\ IsIntText(hdr_dict["num_ascii_tags"]) )
    => /\ hdr_line - 1 = ToInt(hdr_dict["num_ascii_tags"])
       /\ fpos = ToInt(hdr_dict["num_ascii_tags"])

\* C2: when no line read by the header loop triggers the num_ascii_tags
\* override, the loop ends having consumed exactly 14 lines, and the three
\* metadata rows are lines 15 to 17 of the file.
C2_DefaultHeaderIs14Lines ==
    ~override_seen =>
       /\ pc = "ReadHeader" => (hdr_line <= 15 /\ fpos = hdr_line - 1)
       /\ pc = "ReadMetadata" => (hdr_line - 1 = 14 /\ fpos = 14)
       /\ pc = "ReadRows" => fpos = 17

C2_Witness ==
    /\ pc = "ReadMetadata"
    /\ ~override_seen
    /\ fpos = 14
    /\ "sensors_per_cycle" \in DOMAIN hdr_dict

\* C3: for every well-formed input whose metadata rows have length L, the
\* parse ends with a table of exactly L columns, each column's Data holding
\* token i of every data row in row order (D entries, also for D = 0).
C3_TableIsTransposeOfRows ==
    (Finished /\ WellFormedTableInput) =>
       /\ pc = "Closed"
       /\ DOMAIN data_dict = SeqToSet(column_labels)
       /\ \A i \in 1..Len(column_labels) :
             /\ column_labels[i] \in DOMAIN data_dict
             /\ data_dict[column_labels[i]].Data
                   = [r \in 1..Len(data) |-> data[r][i]]

\* C4: when sensors_per_cycle differs from the actual column count L of an
\* otherwise well-formed input with at least one data row, a warning with
\* both counts is issued and the parse succeeds with exactly L columns.
C4_MismatchOnlyWarns ==
    ( /\ Finished
      /\ WellFormedTableInput
      /\ Len(data) > 0
      /\ ToInt(hdr_dict["sensors_per_cycle"]) # Len(column_labels) )
    => /\ pc = "Closed"
       /\ Cardinality(DOMAIN data_dict) = Len(column_labels)
       /\ Contains(warned, Warning(ToInt(hdr_dict["sensors_per_cycle"]),
                                   Len(column_labels)))

\* C5: when some data row has a token count different from the column count
\* fixed by the metadata rows, the parse fails and no table is returned.
C5_RaggedRowFails ==
    ( /\ Finished
      /\ ArrayWasMade
      /\ \E r \in 1..Len(data) : Len(data[r]) # Len(column_labels) )
    => /\ pc = "Failed"
       /\ gpd = "none"

\* C6: a build_parsed_values call on a table that holds every schema name
\* returns to its caller one (name, Data) pair per schema entry, in schema
\* order.
C6_ExtractReturnsPairs ==
    extract_status = "ok" =>
       returned = ListValue([i \in 1..Len(CtdDataParticleKeyList) |->
                     [value_id |-> CtdDataParticleKeyList[i],
                      value    |-> data_dict[CtdDataParticleKeyList[i]].Data]])

C8_StreamClosedOnEveryExit ==
    Finished => fid = "closed"

\* C9: the pipeline only moves forward one state at a time, or from a
\* non-terminal state to Failed; Failed is terminal and nothing is read or
\* built after it; the object reaches the caller only in state Closed, so
\* an extraction call never sees the table of a failed parse.
C9_PipelineForwardOnly ==
    /\ [][ PipelineState' # PipelineState =>
             \/ Rank(PipelineState') = Rank(PipelineState) + 1 /\ PipelineState' # "Failed"
             \/ PipelineState' = "Failed" /\ PipelineState # "Closed" ]_vars
    /\ [][ PipelineState = "Failed" =>
             /\ PipelineState' = "Failed"
             /\ UNCHANGED << fpos, hdr_dict, data, data_array, data_dict, data_keys >> ]_vars
    /\ [](gpd = "obj" => (pc = "Closed" /\ error = NoError))
    /\ [](pc = "Failed" => (gpd = "none" /\ extract_status \in {"none", "GliderObjectException"}))

C9_Witness ==
    /\ pc = "Failed"
    /\ DOMAIN data_dict # {}
    /\ extract_status = "GliderObjectException"

\* C10: after a successful parse of a well-formed input data_keys and data_dict name the same
\* columns, and every entry's Name is its key.
C10_KeysAgreeWithDict ==
    (pc = "Closed" /\ WellFormedTableInput) =>
       /\ SeqToSet(data_keys) = DOMAIN data_dict
       /\ \A k \in DOMAIN data_dict : data_dict[k].Name = k
====
